---- MODULE Spec2Model ----
(***************************************************************************)
(* kebabify: conversion of PascalCase / camelCase / acronym file names to  *)
(* kebab-case, the rewriting of import specifiers, and the renaming pass   *)
(* over a directory tree (src/src/main.rs).                                *)
(*                                                                         *)
(* A Rust char is modelled as a one-character string, a Rust string (or    *)
(* OsStr, or file content) as a sequence of chars.  The char "U+1D400"     *)
(* stands for MATHEMATICAL BOLD CAPITAL A: general category Lu, so         *)
(* char::is_uppercase is true of it, and with no lowercase mapping, so     *)
(* char::to_lowercase yields it unchanged.                                 *)
(***************************************************************************)
EXTENDS Integers, Sequences, FiniteSets, TLC

VARIABLES
    cv_pc,        \* position of the conversion harness
    cv_in,        \* the name under consideration
    cv_case,      \* detect_case(cv_in)
    cv_out,       \* pascal_to_kebab_smart(cv_in)
    cv_again,     \* pascal_to_kebab_smart(cv_out)
    cv_seg,       \* the segment update_imports writes for cv_in
    cv_count,     \* the changes update_imports counts for that segment
    cv_newname,   \* the file name process_directory/rename_file gives cv_in
    im_pc,        \* position of the rewriter harness
    im_content,   \* a source text
    im_first,     \* update_imports(im_content)
    im_second,    \* update_imports(im_first.text)
    pc,           \* position of main
    args,         \* the parsed Args: [imports, all]
    fs,           \* the file system below the root: a set of nodes
    entries,      \* the Vec collected from WalkDir by the running pass
    idx,          \* the loop index into entries
    log,          \* the file-system effects attempted so far, in order
    passes        \* the passes main has started, in order

cvars == <<cv_pc, cv_in, cv_case, cv_out, cv_again, cv_seg, cv_count, cv_newname>>
ivars == <<im_pc, im_content, im_first, im_second>>
tvars == <<pc, args, fs, entries, idx, log, passes>>
vars  == <<cvars, ivars, tvars>>

\* ------------------------------------------------------------------ bounds

MaxNameLen == 4
MaxSegments == 2
MaxStatements == 2
MaxEntries == 3

\* ------------------------------------------------------------------- chars

UpperAscii ==
    <<"A","B","C","D","E","F","G","H","I","J","K","L","M","N","O","P","Q","R","S","T","U","V","W","X","Y","Z">>

LowerAscii ==
    <<"a","b","c","d","e","f","g","h","i","j","k","l","m","n","o","p","q","r","s","t","u","v","w","x","y","z">>

MathBoldA == "U+1D400"

Range(f) == {f[i] : i \in DOMAIN f}

\* char::is_uppercase
is_uppercase(c) == c \in Range(UpperAscii) \cup {MathBoldA}

\* c.to_lowercase().next().unwrap()
to_lowercase(c) ==
    IF c \in Range(UpperAscii)
    THEN LowerAscii[CHOOSE i \in DOMAIN UpperAscii : UpperAscii[i] = c]
    ELSE c

\* str::to_lowercase
str_to_lowercase(s) == [i \in 1..Len(s) |-> to_lowercase(s[i])]

\* -------------------------------------------------------------- converters

needs_conversion(filename) == \E i \in 1..Len(filename) : is_uppercase(filename[i])

Case == {"Pascal", "Camel", "Acronym", "Kebab"}

DetectInit ==
    [has_uppercase |-> FALSE, prev_was_uppercase |-> FALSE,
     consecutive_uppercase |-> 0, first_char_is_uppercase |-> FALSE,
     first_char_seen |-> FALSE]

\* the locals of detect_case after the "first char" block of one iteration
DetectFirst(st, c) ==
    IF ~st.first_char_seen
    THEN [st EXCEPT !.first_char_is_uppercase = is_uppercase(c),
                    !.first_char_seen = TRUE]
    ELSE st

\* the threshold at which a run of uppercase letters is an acronym
AcronymThreshold == 2

RECURSIVE detect_loop(_, _, _)
detect_loop(s, i, st0) ==
    IF i > Len(s)
    THEN IF ~st0.has_uppercase THEN "Kebab"
         ELSE IF st0.first_char_is_uppercase THEN "Pascal"
         ELSE "Camel"
    ELSE LET c  == s[i]
             st == DetectFirst(st0, c)
         IN  IF is_uppercase(c)
             THEN IF st.prev_was_uppercase
                  THEN IF st.consecutive_uppercase + 1 >= AcronymThreshold
                       THEN "Acronym"
                       ELSE detect_loop(s, i + 1,
                              [st EXCEPT !.has_uppercase = TRUE,
                                         !.consecutive_uppercase = @ + 1,
                                         !.prev_was_uppercase = TRUE])
                  ELSE detect_loop(s, i + 1,
                              [st EXCEPT !.has_uppercase = TRUE,
                                         !.consecutive_uppercase = 0,
                                         !.prev_was_uppercase = TRUE])
             ELSE detect_loop(s, i + 1,
                              [st EXCEPT !.prev_was_uppercase = FALSE,
                                         !.consecutive_uppercase = 0])

detect_case(s) == detect_loop(s, 1, DetectInit)

\* the "rest of the string" loop shared by pascal_to_kebab and camel_to_kebab
RECURSIVE kebab_rest(_, _, _)
kebab_rest(s, i, result) ==
    IF i > Len(s) THEN result
    ELSE IF is_uppercase(s[i])
         THEN kebab_rest(s, i + 1, result \o <<"-", to_lowercase(s[i])>>)
         ELSE kebab_rest(s, i + 1, Append(result, s[i]))

pascal_to_kebab(s) ==
    IF Len(s) = 0 THEN <<>>
    ELSE kebab_rest(s, 2, <<to_lowercase(s[1])>>)

camel_to_kebab(s) ==
    IF Len(s) = 0 THEN <<>>
    ELSE kebab_rest(s, 2, <<to_lowercase(s[1])>>)

RECURSIVE acronym_loop(_, _, _, _, _)
acronym_loop(s, i, result, acronym, prev_lower) ==
    IF i > Len(s)
    THEN IF acronym # <<>>
         THEN (IF prev_lower THEN Append(result, "-") ELSE result)
                  \o str_to_lowercase(acronym)
         ELSE result
    ELSE LET c == s[i] IN
         IF is_uppercase(c)
         THEN acronym_loop(s, i + 1,
                  IF acronym # <<>> /\ prev_lower THEN Append(result, "-") ELSE result,
                  Append(acronym, c), FALSE)
         ELSE acronym_loop(s, i + 1,
                  Append(IF acronym # <<>> THEN result \o str_to_lowercase(acronym)
                         ELSE result, c),
                  <<>>, TRUE)

acronym_to_kebab(s) == acronym_loop(s, 1, <<>>, <<>>, FALSE)

pascal_to_kebab_smart(filename) ==
    LET case == detect_case(filename) IN
    CASE case = "Kebab"   -> filename
      [] case = "Pascal"  -> pascal_to_kebab(filename)
      [] case = "Camel"   -> camel_to_kebab(filename)
      [] case = "Acronym" -> acronym_to_kebab(filename)

\* the inputs and outputs asserted by test_pascal_to_kebab_smart
SmartTable ==
    << 
       <<<<"M","y","C","o","m","p","o","n","e","n","t">>,
         <<"m","y","-","c","o","m","p","o","n","e","n","t">>>>,
       <<<<"B","u","t","t","o","n","C","o","m","p","o","n","e","n","t">>,
         <<"b","u","t","t","o","n","-","c","o","m","p","o","n","e","n","t">>>>,
       <<<<"m","y","C","o","m","p","o","n","e","n","t">>,
         <<"m","y","-","c","o","m","p","o","n","e","n","t">>>>,
       <<<<"b","u","t","t","o","n","C","o","m","p","o","n","e","n","t">>,
         <<"b","u","t","t","o","n","-","c","o","m","p","o","n","e","n","t">>>>,
       <<<<"m","y","X","M","L","P","a","r","s","e","r">>,
         <<"m","y","-","x","m","l","-","p","a","r","s","e","r">>>>,
       <<<<"g","e","t","H","T","T","P","R","e","s","p","o","n","s","e">>,
         <<"g","e","t","-","h","t","t","p","-","r","e","s","p","o","n","s","e">>>>,
       <<<<"A","P","I">>,
         <<"a","p","i">>>>,
       <<<<"X","M","L","H","T","T","P","R","e","q","u","e","s","t">>,
         <<"x","m","l","-","h","t","t","p","-","r","e","q","u","e","s","t">>>>,
       <<<<"M","y","X","M","L","P","a","r","s","e","r">>,
         <<"m","y","-","x","m","l","-","p","a","r","s","e","r">>>>,
       <<<<"A","P","I","E","n","d","p","o","i","n","t">>,
         <<"a","p","i","-","e","n","d","p","o","i","n","t">>>>,
       <<<<"M","y","A","P","I","S","e","r","v","i","c","e">>,
         <<"m","y","-","a","p","i","-","s","e","r","v","i","c","e">>>>,
       <<<<"a","l","r","e","a","d","y","-","k","e","b","a","b">>,
         <<"a","l","r","e","a","d","y","-","k","e","b","a","b">>>>
    >>

\* ------------------------------------------------------- path decomposition

None == [some |-> FALSE, val |-> <<>>]
Some(x) == [some |-> TRUE, val |-> x]

RECURSIVE LastIndexOf(_, _, _)
LastIndexOf(s, c, i) ==
    IF i = 0 THEN 0 ELSE IF s[i] = c THEN i ELSE LastIndexOf(s, c, i - 1)

\* std::path's split of a file name at its last '.': <<before, after>>
rsplit_file_at_dot(file) ==
    LET k == LastIndexOf(file, ".", Len(file)) IN
    IF file = <<".", ".">> THEN <<Some(file), None>>
    ELSE IF k = 0 THEN <<None, Some(file)>>
    ELSE IF k = 1 THEN <<Some(file), None>>
    ELSE <<Some(SubSeq(file, 1, k - 1)), Some(SubSeq(file, k + 1, Len(file)))>>

\* Path::file_stem of a path whose last component is `file`: before.or(after)
file_stem(file) ==
    LET p == rsplit_file_at_dot(file) IN IF p[1].some THEN p[1] ELSE p[2]

\* Path::extension: before.and(after)
extension(file) ==
    LET p == rsplit_file_at_dot(file) IN IF p[1].some THEN p[2] ELSE None

\* the new file name rename_file builds for an entry whose file name is `file`
new_filename(file) ==
    LET new_stem == pascal_to_kebab_smart(file_stem(file).val)
        ext      == extension(file)
    IN  IF ext.some THEN new_stem \o <<".">> \o ext.val ELSE new_stem

\* the guard under which process_directory calls rename_file for an entry
rename_guard(file) == needs_conversion(file)

\* the name an entry called `file` has after process_directory has handled it
name_after_pass(file) == IF rename_guard(file) THEN new_filename(file) ELSE file

\* ------------------------------------------------------- segment rewriting

\* str::split(sep): the pieces between separators, empty pieces kept
RECURSIVE split(_, _)
split(s, sep) ==
    IF \A i \in 1..Len(s) : s[i] # sep THEN <<s>>
    ELSE LET k == CHOOSE i \in 1..Len(s) :
                      s[i] = sep /\ \A j \in 1..(i - 1) : s[j] # sep
         IN  <<SubSeq(s, 1, k - 1)>> \o split(SubSeq(s, k + 1, Len(s)), sep)

\* [String]::join(sep)
RECURSIVE join(_, _)
join(parts, sep) ==
    IF Len(parts) = 0 THEN <<>>
    ELSE IF Len(parts) = 1 THEN parts[1]
    ELSE parts[1] \o <<sep>> \o join(Tail(parts), sep)

\* the closure update_imports maps over the segments of a specifier:
\* the new segment and the number of changes it counts
rewrite_segment(segment) ==
    IF segment = <<".">> \/ segment = <<".", ".">>
    THEN [seg |-> segment, changes |-> 0]
    ELSE LET parts == split(segment, ".") IN
         IF Len(parts) > 1
         THEN LET name == parts[1]
                  ext  == join(Tail(parts), ".")
              IN  IF needs_conversion(name)
                  THEN [seg |-> pascal_to_kebab_smart(name) \o <<".">> \o ext,
                        changes |-> 1]
                  ELSE [seg |-> segment, changes |-> 0]
         ELSE IF needs_conversion(segment)
              THEN [seg |-> pascal_to_kebab_smart(segment), changes |-> 1]
              ELSE [seg |-> segment, changes |-> 0]

\* ------------------------------------------------- the parts a run leaves idle

ConvIdle ==
    /\ cv_pc = "idle"
    /\ cv_in = <<>>
    /\ cv_case = "none"
    /\ cv_out = <<>>
    /\ cv_again = <<>>
    /\ cv_seg = <<>>
    /\ cv_count = 0
    /\ cv_newname = <<>>

NoResult == [text |-> <<>>, changes |-> 0]

ImportsIdle ==
    /\ im_pc = "idle"
    /\ im_content = <<>>
    /\ im_first = NoResult
    /\ im_second = NoResult

NoArgs == [imports |-> FALSE, all |-> FALSE]

TreeIdle ==
    /\ pc = "idle"
    /\ args = NoArgs
    /\ fs = {}
    /\ entries = <<>>
    /\ idx = 0
    /\ log = <<>>
    /\ passes = <<>>

\* ---------------------------------------------- specification: conversions

NameAlphabet == {"A", "B", "a", "-", ".", "1", MathBoldA}

Strings(alphabet, n) == UNION {[1..k -> alphabet] : k \in 0..n}

TableInputs == {SmartTable[i][1] : i \in DOMAIN SmartTable}

\* a file or directory name the file system can hold
ValidComponent(n) ==
    /\ Len(n) > 0
    /\ n # <<".">>
    /\ n # <<".", ".">>
    /\ \A i \in 1..Len(n) : n[i] # "/"

ConvInit ==
    /\ cv_pc = "start"
    /\ cv_in \in Strings(NameAlphabet, MaxNameLen) \cup TableInputs
    /\ cv_case = "none"
    /\ cv_out = <<>>
    /\ cv_again = <<>>
    /\ cv_seg = <<>>
    /\ cv_count = 0
    /\ cv_newname = <<>>

Classify ==
    /\ cv_pc = "start"
    /\ cv_case' = detect_case(cv_in)
    /\ cv_pc' = "classified"
    /\ UNCHANGED <<cv_in, cv_out, cv_again, cv_seg, cv_count, cv_newname, ivars, tvars>>

Convert ==
    /\ cv_pc = "classified"
    /\ cv_out' = pascal_to_kebab_smart(cv_in)
    /\ cv_pc' = "converted"
    /\ UNCHANGED <<cv_in, cv_case, cv_again, cv_seg, cv_count, cv_newname, ivars, tvars>>

ConvertAgain ==
    /\ cv_pc = "converted"
    /\ cv_again' = pascal_to_kebab_smart(cv_out)
    /\ cv_pc' = "reconverted"
    /\ UNCHANGED <<cv_in, cv_case, cv_out, cv_seg, cv_count, cv_newname, ivars, tvars>>

RewriteSegment ==
    /\ cv_pc = "reconverted"
    /\ ValidComponent(cv_in)
    /\ cv_seg' = rewrite_segment(cv_in).seg
    /\ cv_count' = rewrite_segment(cv_in).changes
    /\ cv_pc' = "rewritten"
    /\ UNCHANGED <<cv_in, cv_case, cv_out, cv_again, cv_newname, ivars, tvars>>

RenameEntry ==
    /\ cv_pc = "rewritten"
    /\ cv_newname' = name_after_pass(cv_in)
    /\ cv_pc' = "renamed"
    /\ UNCHANGED <<cv_in, cv_case, cv_out, cv_again, cv_seg, cv_count, ivars, tvars>>

ConvNext == Classify \/ Convert \/ ConvertAgain \/ RewriteSegment \/ RenameEntry

ConvertInit == ConvInit /\ ImportsIdle /\ TreeIdle

SpecConvert == ConvertInit /\ [][ConvNext]_vars

\* ---------------------------------------------------------- update_imports

Quotes == {"'", "\""}

\* the regex class \s, restricted to the white space the modelled texts use
IsSpace(c) == c \in {" ", "\n"}

KwImport  == <<"i","m","p","o","r","t">>
KwFrom    == <<"f","r","o","m">>
KwRequire == <<"r","e","q","u","i","r","e","(">>

HasAt(text, i, lit) ==
    /\ i >= 1
    /\ i + Len(lit) - 1 <= Len(text)
    /\ SubSeq(text, i, i + Len(lit) - 1) = lit

\* the index of the first quote at or after i, 0 when there is none
RECURSIVE FirstQuoteFrom(_, _)
FirstQuoteFrom(text, i) ==
    IF i > Len(text) THEN 0
    ELSE IF text[i] \in Quotes THEN i
    ELSE FirstQuoteFrom(text, i + 1)

\* import\s+(?:type\s+)?[^"']*?from\s*["'] matched at i: the index of the quote
\* that ends it, 0 when it does not match.  [^"']*? crosses no quote, so that
\* quote is the first one after the keyword, with `from` and white space only
\* right before it; (?:type\s+)? is covered by [^"']*?.
import_prefix_at(text, i) ==
    IF ~(HasAt(text, i, KwImport) /\ i + 6 <= Len(text) /\ IsSpace(text[i + 6]))
    THEN 0
    ELSE LET q == FirstQuoteFrom(text, i + 7) IN
         IF q # 0 /\ \E k \in (i + 7)..(q - 4) :
                        /\ HasAt(text, k, KwFrom)
                        /\ \A j \in (k + 4)..(q - 1) : IsSpace(text[j])
         THEN q ELSE 0

\* require\(["'] matched at i
require_prefix_at(text, i) ==
    IF HasAt(text, i, KwRequire) /\ i + 8 <= Len(text) /\ text[i + 8] \in Quotes
    THEN i + 8 ELSE 0

\* import_regex matched at i: q the opening quote (end of capture 1), pend the
\* closing quote (start of capture 3), end the last index of the match
match_at(text, i) ==
    LET qi   == import_prefix_at(text, i)
        q    == IF qi # 0 THEN qi ELSE require_prefix_at(text, i)
        pend == IF q = 0 THEN 0 ELSE FirstQuoteFrom(text, q + 1)
    IN  IF q = 0 \/ pend = 0 \/ pend = q + 1
        THEN [ok |-> FALSE, q |-> 0, pend |-> 0, end |-> 0]
        ELSE [ok |-> TRUE, q |-> q, pend |-> pend,
              end |-> IF pend + 1 <= Len(text) /\ text[pend + 1] \in {")", ";"}
                      THEN pend + 1 ELSE pend]

RECURSIVE SumChanges(_)
SumChanges(rs) == IF Len(rs) = 0 THEN 0 ELSE rs[1].changes + SumChanges(Tail(rs))

\* the body of the replace_all closure on capture 2
rewrite_path(path) ==
    LET segments == split(path, "/")
        rs       == [k \in 1..Len(segments) |-> rewrite_segment(segments[k])]
    IN  [path    |-> join([k \in 1..Len(rs) |-> rs[k].seg], "/"),
         changes |-> SumChanges(rs)]

\* Regex::replace_all: the matches left to right, none overlapping
RECURSIVE replace_all(_, _, _, _)
replace_all(text, i, out, changes) ==
    IF i > Len(text) THEN [text |-> out, changes |-> changes]
    ELSE LET m == match_at(text, i) IN
         IF m.ok
         THEN LET r == rewrite_path(SubSeq(text, m.q + 1, m.pend - 1)) IN
              replace_all(text, m.end + 1,
                          out \o SubSeq(text, i, m.q) \o r.path
                              \o SubSeq(text, m.pend, m.end),
                          changes + r.changes)
         ELSE replace_all(text, i + 1, Append(out, text[i]), changes)

update_imports(content) == replace_all(content, 1, <<>>, 0)

\* ------------------------------------------------- specification: rewriter

StmtImport     == <<"i","m","p","o","r","t"," ","a"," ","f","r","o","m"," ">>
StmtImportType == <<"i","m","p","o","r","t"," ","t","y","p","e"," ","B"," ","f","r","o","m">>
StmtRequire    == <<"r","e","q","u","i","r","e","(">>
StmtNoFrom     == <<"i","m","p","o","r","t"," ","a"," ">>

\* statement templates: the text before the specifier, and the text after it
Templates ==
    { <<StmtImport \o <<"'">>, <<"'", ";">>>>,
      <<StmtImportType \o <<"\"">>, <<"\"">>>>,
      <<StmtRequire \o <<"'">>, <<"'", ")", ";">>>>,
      <<StmtNoFrom \o <<"'">>, <<"'", ";">>>> }

SegmentPool ==
    { <<".", ".">>, <<"A", "b">>, <<"a", "B", ".", "c">>, <<"a", "b">>,
      <<"a", MathBoldA>> }

Specifiers ==
    {join(segs, "/") : segs \in UNION {[1..k -> SegmentPool] : k \in 1..MaxSegments}}

Statements == {tp[1] \o sp \o tp[2] : tp \in Templates, sp \in Specifiers}

RECURSIVE Flatten(_)
Flatten(lines) ==
    IF Len(lines) = 0 THEN <<>> ELSE lines[1] \o <<"\n">> \o Flatten(Tail(lines))

SourceTexts ==
    {Flatten(ls) : ls \in UNION {[1..k -> Statements] : k \in 0..MaxStatements}}

ImportsInit ==
    /\ im_pc = "start"
    /\ im_content \in SourceTexts
    /\ im_first = NoResult
    /\ im_second = NoResult

Rewrite ==
    /\ im_pc = "start"
    /\ im_first' = update_imports(im_content)
    /\ im_pc' = "rewritten"
    /\ UNCHANGED <<im_content, im_second, cvars, tvars>>

RewriteAgain ==
    /\ im_pc = "rewritten"
    /\ im_second' = update_imports(im_first.text)
    /\ im_pc' = "rewritten_twice"
    /\ UNCHANGED <<im_content, im_first, cvars, tvars>>

ImportsNext == Rewrite \/ RewriteAgain

RewriterInit == ImportsInit /\ ConvIdle /\ TreeIdle

SpecImports == RewriterInit /\ [][ImportsNext]_vars

\* ------------------------------------------------------------- file system

\* A path is a sequence of components; a node is [path, kind, content].
\* content is [valid, text]: valid is whether the bytes decode as UTF-8.

IsPrefix(p, q) == Len(p) <= Len(q) /\ SubSeq(q, 1, Len(p)) = p
IsProperPrefix(p, q) == Len(p) < Len(q) /\ IsPrefix(p, q)

parent(path) == SubSeq(path, 1, Len(path) - 1)
file_name(path) == path[Len(path)]

Exists(F, path) == \E n \in F : n.path = path
NodeAt(F, path) == CHOOSE n \in F : n.path = path
Children(F, path) == {n \in F : Len(n.path) = Len(path) + 1 /\ IsPrefix(path, n.path)}

NoContent == [valid |-> TRUE, text |-> <<>>]

\* std::fs::rename(from, to) on a POSIX file system: [ok, fs]
fs_rename(F, from, to) ==
    IF ~Exists(F, from) THEN [ok |-> FALSE, fs |-> F]
    ELSE IF from = to THEN [ok |-> TRUE, fs |-> F]
    ELSE LET s     == NodeAt(F, from)
             moved == {IF IsPrefix(from, n.path)
                       THEN [n EXCEPT !.path = to \o SubSeq(n.path, Len(from) + 1, Len(n.path))]
                       ELSE n : n \in F}
         IN  IF ~Exists(F, to) THEN [ok |-> TRUE, fs |-> moved]
             ELSE LET d == NodeAt(F, to) IN
                  IF s.kind # d.kind \/ (d.kind = "dir" /\ Children(F, to) # {})
                  THEN [ok |-> FALSE, fs |-> F]
                  ELSE [ok |-> TRUE,
                        fs |-> {IF IsPrefix(from, n.path)
                                THEN [n EXCEPT !.path = to \o SubSeq(n.path, Len(from) + 1, Len(n.path))]
                                ELSE n : n \in F \ {d}}]

\* ----------------------------------------------------------------- WalkDir

DirEntry(n) == [path |-> n.path, kind |-> n.kind]

\* the sequences WalkDir can yield for the subtree at a node: the directory
\* before its contents, the contents in an order the file system chooses
RECURSIVE walk(_, _)
RECURSIVE walk_children(_, _)
walk(F, n) ==
    IF n.kind = "file" THEN {<<DirEntry(n)>>}
    ELSE {<<DirEntry(n)>> \o w : w \in walk_children(F, Children(F, n.path))}
walk_children(F, S) ==
    IF S = {} THEN {<<>>}
    ELSE UNION {{w1 \o w2 : w1 \in walk(F, c), w2 \in walk_children(F, S \ {c})} : c \in S}

Root(F) == CHOOSE n \in F : Len(n.path) = 1

RECURSIVE SelectSeq2(_, _)
SelectSeq2(s, keep) ==
    IF Len(s) = 0 THEN <<>>
    ELSE IF keep[1] THEN <<s[1]>> \o SelectSeq2(Tail(s), Tail(keep))
    ELSE SelectSeq2(Tail(s), Tail(keep))

SourceExtensions ==
    { <<"j","s">>, <<"j","s","x">>, <<"t","s">>, <<"t","s","x">>,
      <<"s","v","e","l","t","e">>, <<"v","u","e">> }

matches_source_file(path) ==
    LET e == extension(file_name(path)) IN e.some /\ e.val \in SourceExtensions

\* ------------------------------------------------------------ main's passes

\* main with the import pass tied to --imports alone
runs_imports_without_all(a) == a.imports

\* the conditions of main's two `if`s
runs_imports(a) == a.all \/ a.imports
runs_rename(a) == a.all \/ ~a.imports

\* the directory loop without .rev()
dir_loop_index_forward(n, k) == k

\* the index of entries the k-th iteration of the directory loop visits
dir_loop_index(n, k) == n + 1 - k

\* the destination rename_file computes for an entry's path
new_path(path) == Append(parent(path), new_filename(file_name(path)))

RenameEvent(F, path) ==
    [op |-> "rename", src |-> path, dst |-> new_path(path),
     src_exists |-> Exists(F, path),
     dst_taken |-> new_path(path) # path /\ Exists(F, new_path(path)),
     ok |-> fs_rename(F, path, new_path(path)).ok]

WriteEvent(path) ==
    [op |-> "write", src |-> path, dst |-> path, src_exists |-> TRUE,
     dst_taken |-> FALSE, ok |-> TRUE]

\* --------------------------------------------- specification: the program

\* the directory main is given: the test's "test", or one that needs conversion
RootNames == { <<"t">>, <<"A", "b">> }

DirNames == { <<"A", "b">>, <<"a", "B">>, <<"a", "-", "b">>, <<"a", ".", "B">> }

FileNames == { <<"a", "B">>, <<"a", "-", "b">>, <<"a", ".", "B">>, <<"A", "b", ".", "j", "s">> }

ImportUpper == [valid |-> TRUE, text |-> <<"r","e","q","u","i","r","e","(","'",".","/","A","b","'",")">>]
ImportKebab == [valid |-> TRUE, text |-> <<"r","e","q","u","i","r","e","(","'",".","/","a","b","'",")">>]
InvalidUtf8 == [valid |-> FALSE, text |-> <<>>]

FileContents(name) ==
    IF matches_source_file(<<name>>) THEN {ImportUpper, ImportKebab, InvalidUtf8}
    ELSE {NoContent}

TreeInit ==
    /\ pc = "setup"
    /\ args = NoArgs
    /\ \E r \in RootNames :
          fs = {[path |-> <<r>>, kind |-> "dir", content |-> NoContent]}
    /\ entries = <<>>
    /\ idx = 0
    /\ log = <<>>
    /\ passes = <<>>

\* the environment populates the tree (fs::create_dir, fs::write)
CreateDir ==
    /\ pc = "setup"
    /\ Cardinality(fs) <= MaxEntries
    /\ \E d \in {n \in fs : n.kind = "dir"}, name \in DirNames :
          /\ ~Exists(fs, Append(d.path, name))
          /\ fs' = fs \cup {[path |-> Append(d.path, name), kind |-> "dir",
                             content |-> NoContent]}
    /\ UNCHANGED <<pc, args, entries, idx, log, passes, cvars, ivars>>

CreateFile ==
    /\ pc = "setup"
    /\ Cardinality(fs) <= MaxEntries
    /\ \E d \in {n \in fs : n.kind = "dir"}, name \in FileNames :
          /\ ~Exists(fs, Append(d.path, name))
          /\ \E c \in FileContents(name) :
                fs' = fs \cup {[path |-> Append(d.path, name), kind |-> "file",
                                content |-> c]}
    /\ UNCHANGED <<pc, args, entries, idx, log, passes, cvars, ivars>>

\* Args::parse and the dispatch on the flags
Main ==
    /\ pc = "setup"
    /\ \E i \in BOOLEAN, a \in BOOLEAN :
          /\ args' = [imports |-> i, all |-> a]
          /\ pc' = IF i /\ a THEN "usage_error"
                   ELSE IF runs_imports(args') THEN "process_imports"
                   ELSE IF runs_rename(args') THEN "process_directory"
                   ELSE "done"
    /\ UNCHANGED <<fs, entries, idx, log, passes, cvars, ivars>>

\* process_imports: collect the source files
CollectSources ==
    /\ pc = "process_imports"
    /\ \E w \in walk(fs, Root(fs)) :
          entries' = SelectSeq2(w, [k \in 1..Len(w) |->
                          w[k].kind = "file" /\ matches_source_file(w[k].path)])
    /\ idx' = 1
    /\ passes' = Append(passes, "imports")
    /\ pc' = "imports_loop"
    /\ UNCHANGED <<args, fs, log, cvars, ivars>>

\* process_file_imports on the next collected file
ProcessFileImports ==
    /\ pc = "imports_loop"
    /\ idx <= Len(entries)
    /\ LET path == entries[idx].path
           file == NodeAt(fs, path)
           r    == update_imports(file.content.text)
       IN  IF ~file.content.valid
           THEN /\ pc' = "error"
                /\ UNCHANGED <<fs, log, idx>>
           ELSE /\ pc' = pc
                /\ idx' = idx + 1
                /\ IF r.changes > 0
                   THEN /\ fs' = (fs \ {file}) \cup
                                   {[file EXCEPT !.content.text = r.text]}
                        /\ log' = Append(log, WriteEvent(path))
                   ELSE UNCHANGED <<fs, log>>
    /\ UNCHANGED <<args, entries, passes, cvars, ivars>>

ImportsDone ==
    /\ pc = "imports_loop"
    /\ idx > Len(entries)
    /\ pc' = IF runs_rename(args) THEN "process_directory" ELSE "done"
    /\ UNCHANGED <<args, fs, entries, idx, log, passes, cvars, ivars>>

\* process_directory: collect the whole traversal
CollectEntries ==
    /\ pc = "process_directory"
    /\ entries' \in walk(fs, Root(fs))
    /\ idx' = 1
    /\ passes' = Append(passes, "rename")
    /\ pc' = "files_loop"
    /\ UNCHANGED <<args, fs, log, cvars, ivars>>

\* rename_file(entry.path()) with its effect on the loop
RenameStep(path, next_idx) ==
    LET r == fs_rename(fs, path, new_path(path)) IN
    /\ log' = Append(log, RenameEvent(fs, path))
    /\ fs' = r.fs
    /\ IF r.ok THEN pc' = pc /\ idx' = next_idx
               ELSE pc' = "error" /\ idx' = idx

\* one iteration of the loop over the files
FilesStep ==
    /\ pc = "files_loop"
    /\ idx <= Len(entries)
    /\ LET e == entries[idx] IN
       IF e.kind = "file" /\ rename_guard(file_name(e.path))
       THEN RenameStep(e.path, idx + 1)
       ELSE /\ idx' = idx + 1
            /\ UNCHANGED <<pc, fs, log>>
    /\ UNCHANGED <<args, entries, passes, cvars, ivars>>

FilesDone ==
    /\ pc = "files_loop"
    /\ idx > Len(entries)
    /\ pc' = "dirs_loop"
    /\ idx' = 1
    /\ UNCHANGED <<args, fs, entries, log, passes, cvars, ivars>>

\* one iteration of the loop over the directories
DirsStep ==
    /\ pc = "dirs_loop"
    /\ idx <= Len(entries)
    /\ LET e == entries[dir_loop_index(Len(entries), idx)] IN
       IF e.kind = "dir" /\ rename_guard(file_name(e.path))
       THEN RenameStep(e.path, idx + 1)
       ELSE /\ idx' = idx + 1
            /\ UNCHANGED <<pc, fs, log>>
    /\ UNCHANGED <<args, entries, passes, cvars, ivars>>

DirsDone ==
    /\ pc = "dirs_loop"
    /\ idx > Len(entries)
    /\ pc' = "done"
    /\ UNCHANGED <<args, fs, entries, idx, log, passes, cvars, ivars>>

Next ==
    \/ CreateDir \/ CreateFile \/ Main
    \/ CollectSources \/ ProcessFileImports \/ ImportsDone
    \/ CollectEntries \/ FilesStep \/ FilesDone \/ DirsStep \/ DirsDone

Init == TreeInit /\ ConvIdle /\ ImportsIdle

Spec == Init /\ [][Next]_vars

\* ================================================================== claims

\* ---- under SpecConvert

Converted == cv_pc \in {"converted", "reconverted", "rewritten", "renamed"}

TableOutput(s) == SmartTable[CHOOSE i \in DOMAIN SmartTable : SmartTable[i][1] = s][2]

\* C1: pascal_to_kebab_smart maps every input of the case-conversion table
\* to the output the table lists for it.
C1_TableExact ==
    (Converted /\ cv_in \in TableInputs) => cv_out = TableOutput(cv_in)

HasAdjacentUppercase(s) ==
    \E i \in 1..(Len(s) - 1) : is_uppercase(s[i]) /\ is_uppercase(s[i + 1])

\* C2: detect_case returns Acronym iff the name has two adjacent uppercase
\* letters; otherwise Kebab without any uppercase letter, Pascal when the
\* first character is uppercase, Camel in the remaining case.
C2_ClassifierRule ==
    cv_pc \notin {"idle", "start"} =>
        cv_case = IF HasAdjacentUppercase(cv_in) THEN "Acronym"
                  ELSE IF ~needs_conversion(cv_in) THEN "Kebab"
                  ELSE IF is_uppercase(cv_in[1]) THEN "Pascal"
                  ELSE "Camel"

\* C3: pascal_to_kebab_smart is idempotent: converting a converted name
\* gives the converted name.
C3_Idempotent ==
    cv_pc \in {"reconverted", "rewritten", "renamed"} => cv_again = cv_out

\* C4: the segment update_imports writes for a file or directory name is
\* the name process_directory gives an entry of that name.
C4_SegmentMatchesRename ==
    cv_pc = "renamed" => cv_seg = cv_newname

\* ---- under SpecImports

\* C9: update_imports applied to its own output counts no change and
\* returns that text unchanged.
C9_RewriterIdempotent ==
    im_pc = "rewritten_twice" =>
        im_second.changes = 0 /\ im_second.text = im_first.text

\* ---- under Spec

Renames == {j \in DOMAIN log : log[j].op = "rename"}
Writes  == {j \in DOMAIN log : log[j].op = "write"}

InSeq(x, s) == \E k \in DOMAIN s : s[k] = x

\* C5: every rename of a process_directory pass is attempted on a recorded
\* path that still exists, and never on a path below a directory that was
\* renamed earlier in the pass.
C5_RenameOrderingSafe ==
    \A j \in Renames :
        /\ log[j].src_exists
        /\ \A i \in Renames : i < j => ~IsProperPrefix(log[i].src, log[j].src)

\* C5's case: a directory is renamed after an entry below it was renamed
C5_Witness ==
    \E i, j \in Renames :
        /\ i < j
        /\ IsProperPrefix(log[j].src, log[i].src)
        /\ log[i].ok /\ log[i].src # log[i].dst
        /\ log[j].ok /\ log[j].src # log[j].dst

\* C6: after a successful process_directory no directory has an uppercase
\* letter in its name and no file has one in its stem.
C6_RenamePostcondition ==
    (pc = "done" /\ InSeq("rename", passes)) =>
        \A n \in fs :
            IF n.kind = "dir"
            THEN ~needs_conversion(file_name(n.path))
            ELSE ~needs_conversion(file_stem(file_name(n.path)).val)

\* C7: the import pass runs iff the mode is imports-only or both, the
\* rename pass iff it is rename-only or both, the import pass first; and
\* no file content is written once a rename has been attempted.
C7_DriverSequencing ==
    /\ pc = "done" =>
          /\ InSeq("imports", passes) <=> (args.imports \/ args.all)
          /\ InSeq("rename", passes) <=> ~args.imports
    /\ passes \in {<<>>, <<"imports">>, <<"rename">>, <<"imports", "rename">>}
    /\ Renames # {} => InSeq("rename", passes)
    /\ \A i \in Renames, j \in Writes : j < i

\* C7's case: a both-mode run that wrote a file and then renamed an entry
C7_Witness ==
    /\ pc = "done"
    /\ args.all
    /\ Writes # {}
    /\ \E i \in Renames : log[i].ok /\ log[i].src # log[i].dst

\* C8: rename_file is called only for an entry whose stem has an
\* uppercase letter, and never with a destination equal to the source.
C8_NoSelfRename ==
    \A j \in Renames :
        /\ needs_conversion(file_stem(file_name(log[j].src)).val)
        /\ log[j].dst # log[j].src

\* C10: no rename lands on a path another entry occupies, and the pass
\* keeps the number of files.
C10_NoDestructiveCollision ==
    /\ \A j \in Renames : ~(log[j].ok /\ log[j].dst_taken)
    /\ (pc = "done" /\ InSeq("rename", passes)) =>
          Cardinality({n \in fs : n.kind = "file"})
              = Cardinality({k \in DOMAIN entries : entries[k].kind = "file"})

====
